---- MODULE Spec2Model ----
(***************************************************************************)
(* A model of apps/temporal-lite/index.js: a workflow engine that records  *)
(* every step of a workflow in a history log, suspends at a timer by       *)
(* throwing SleepError, saves the log to history.json and exits, and on    *)
(* the next run of the script replays the log from cursor 0.               *)
(*                                                                         *)
(* One process runs at a time.  A pass is one run of the workflow body     *)
(* (StartWorkflow or ResumeWorkflow); the steps of a pass are the actions  *)
(* ActivityFromFunction / ActivityResolve / ActivityReject / workflowSleep.*)
(***************************************************************************)
EXTENDS Integers, Sequences, FiniteSets, TLC

(***************************************************************************)
(* Bounds of the model.                                                    *)
(***************************************************************************)
MaxRuns == 4
MaxTicks == 4

(***************************************************************************)
(* Program constants.                                                      *)
(***************************************************************************)
LoopCount == 3
SleepMs == 3000

\* The milliseconds a setTimeout callback may run ahead of Date.now().
TimerSlack == 1

WID == "workflowId"
Undefined == "undefined"
Null == "null"
SleepName == "sleep"

(***************************************************************************)
(* The functions handed to ActivityFromFunction.  SendSlackMessage is the  *)
(* one of the script; the others are the remaining behaviours a wrapped    *)
(* function can have: returning nothing, and throwing.                     *)
(***************************************************************************)
SendSlackMessage == [name |-> "SendSlackMessage", throws |-> FALSE, returns |-> "{success:true}"]
voidActivity == [name |-> "voidActivity", throws |-> FALSE, returns |-> Undefined]
failingActivity == [name |-> "failingActivity", throws |-> TRUE, returns |-> Undefined]

Funcs == {SendSlackMessage, voidActivity, failingActivity}

FuncOf(n) == CHOOSE f \in Funcs : f.name = n

(***************************************************************************)
(* A workflow body is the sequence of step calls it makes: an activity     *)
(* call [name, arg] or a timer call ["sleep", ms].                         *)
(***************************************************************************)
NotifyWorkflow ==
  [k \in 1..(2 * LoopCount) |->
     IF k % 2 = 1 THEN [name |-> SendSlackMessage.name, arg |-> (k - 1) \div 2]
                  ELSE [name |-> SleepName, arg |-> SleepMs]]

VoidWorkflow ==
  << [name |-> voidActivity.name, arg |-> 0],
     [name |-> SleepName, arg |-> SleepMs] >>

FailingWorkflow ==
  << [name |-> SendSlackMessage.name, arg |-> 0],
     [name |-> SleepName, arg |-> SleepMs],
     [name |-> failingActivity.name, arg |-> 1] >>

SleepFirstWorkflow ==
  << [name |-> SleepName, arg |-> SleepMs],
     [name |-> SendSlackMessage.name, arg |-> 0] >>

Workflows == {NotifyWorkflow, VoidWorkflow, FailingWorkflow, SleepFirstWorkflow}

MaxSteps == 2 * LoopCount

Modes == {"throw", "warn"}

VARIABLES
  proc,          \* "down" | "up": whether the script's process is alive
  exit,          \* how the last process ended
  mode,          \* what this process does with an unhandled rejection
  wf,            \* the workflow body of the script being run
  now,           \* Date.now()
  file,          \* history.json: whether it exists, whether it parses, its logs
  historyStore,  \* wid -> log
  context,       \* wid -> [seq]
  timers,        \* pending setTimeout callbacks of ScheduleWakeUp
  passes,        \* the runs of the workflow body in this process
  calls,         \* workflow position -> number of invocations of func
  wakes,         \* number of ScheduleWakeUp calls
  saves,         \* number of successful saveHistoryToFile calls
  runs,          \* number of times the script was started
  modified,      \* the script's workflow was changed between two runs
  saveFailed,    \* some writeFileSync has thrown
  handled,       \* the errors errorHandler has seen, each with the branch it took
  returns,       \* number of passes in which the workflow body has returned
  passStart      \* what the latest pass found when it began, and what began it

vars == << proc, exit, mode, wf, now, file, historyStore, context, timers,
           passes, calls, wakes, saves, runs, modified, saveFailed, handled,
           returns, passStart >>

EmptyStore == [w \in {} |-> << >>]

NoFile == [exists |-> FALSE, parses |-> FALSE, data |-> EmptyStore]

\* history.json as a write that threw after opening it has left it: empty
\* or cut short, JSON.parse throws on it.
TruncatedFile == [exists |-> TRUE, parses |-> FALSE, data |-> EmptyStore]

\* What fs.writeFileSync does: it writes the text; or it throws before it
\* has opened the file, which stays as it was; or it throws after opening
\* it, which leaves it truncated.
WriteOutcomes == {"written", "refused", "truncated"}

(***************************************************************************)
(* JSON.stringify of the store: a Date becomes its ISO string; an          *)
(* undefined output is dropped, and reads back as undefined.               *)
(***************************************************************************)
JSONValue(input) ==
  IF input[1] = "Date" THEN << "ISO", input[2], input[3] >> ELSE input

JSONEntry(e) == [e EXCEPT !.input = JSONValue(e.input)]

JSONstringify(store) ==
  [w \in DOMAIN store |-> [k \in 1..Len(store[w]) |-> JSONEntry(store[w][k])]]

\* saveHistoryToFile that writes a file without the logs of the store.
saveHistoryToFile_Empty(store) == [exists |-> TRUE, parses |-> TRUE, data |-> EmptyStore]

saveHistoryToFile(store) == [exists |-> TRUE, parses |-> TRUE, data |-> JSONstringify(store)]

\* loadHistoryFromFile that reads nothing: the store stays as it was.
loadHistoryFromFile_Ignore(f, store) == store

(***************************************************************************)
(* loadHistoryFromFile: the logs of the file replace those of the store;   *)
(* with no file, or one JSON.parse throws on (the error is printed), the   *)
(* store stays as it is.                                                   *)
(***************************************************************************)
loadHistoryFromFile(f, store) ==
  IF f.exists /\ f.parses
    THEN [w \in (DOMAIN store) \cup (DOMAIN f.data) |->
            IF w \in DOMAIN f.data THEN f.data[w] ELSE store[w]]
    ELSE store

\* getCachedResult without the comparison of names: the recorded output is
\* handed to whatever step is at the cursor.
getCachedResult_NoNameCheck(hs, seq, name) ==
  IF seq < Len(hs) /\ hs[seq + 1].status = "completed"
    THEN [throws |-> FALSE, value |-> hs[seq + 1].output]
    ELSE [throws |-> FALSE, value |-> Undefined]

(***************************************************************************)
(* getCachedResult: the recorded output of a completed entry at the        *)
(* cursor, a throw when its name differs, undefined otherwise.             *)
(***************************************************************************)
getCachedResult(hs, seq, name) ==
  IF seq < Len(hs) /\ hs[seq + 1].status = "completed"
    THEN IF hs[seq + 1].name # name
           THEN [throws |-> TRUE, value |-> Undefined]
           ELSE [throws |-> FALSE, value |-> hs[seq + 1].output]
    ELSE [throws |-> FALSE, value |-> Undefined]

\* The number of entries of the log before its first entry that is not
\* completed.
CompletedPrefix(log) ==
  CHOOSE k \in 0..Len(log) :
    /\ \A j \in 1..k : log[j].status = "completed"
    /\ (k < Len(log) => log[k + 1].status # "completed")

RECURSIVE Sum(_, _)
Sum(f, n) == IF n = 0 THEN 0 ELSE f[n] + Sum(f, n - 1)

\* The operations invoked so far: calls of a wrapped function, and wake-ups
\* scheduled by a timer.
TotalOps == Sum(calls, MaxSteps) + wakes

Active(ps) == ps.pc \in {"run", "await", "catch"}

NewPass(kind) ==
  [kind |-> kind, pc |-> "run", ip |-> 1, ret |-> Undefined, err |-> "none", entry |-> 0]

Init ==
  /\ proc = "down"
  /\ exit = "none"
  /\ mode = "throw"
  /\ wf = NotifyWorkflow
  /\ now = 0
  /\ file = NoFile
  /\ historyStore = EmptyStore
  /\ context = EmptyStore
  /\ timers = {}
  /\ passes = << >>
  /\ calls = [k \in 1..MaxSteps |-> 0]
  /\ wakes = 0
  /\ saves = 0
  /\ runs = 0
  /\ modified = FALSE
  /\ saveFailed = FALSE
  /\ handled = {}
  /\ returns = 0
  /\ passStart = [k |-> 0, ops |-> 0, by |-> "none"]

(***************************************************************************)
(* StartWorkflow and ResumeWorkflow: reset the cursor and run the body.    *)
(* `store` is the store the call finds, `ps` the passes of the process.    *)
(* Passes that have ended are dropped from the record.                     *)
(***************************************************************************)
StartWorkflow(store, ps) ==
  /\ context' = (WID :> [seq |-> 0])
  /\ historyStore' = [w \in (DOMAIN store) \cup {WID} |->
                        IF w = WID THEN << >> ELSE store[w]]
  /\ passes' = Append(SelectSeq(ps, Active), NewPass("start"))

\* ResumeWorkflow without the reset of the cursor: the pass goes on from
\* the sequence number the pass before it has left.
ResumeWorkflow_NoReset(store, ps) ==
  /\ context' = IF WID \in DOMAIN context THEN context ELSE (WID :> [seq |-> 0])
  /\ historyStore' = store
  /\ passes' = Append(SelectSeq(ps, Active), NewPass("resume"))

ResumeWorkflow(store, ps) ==
  /\ context' = (WID :> [seq |-> 0])
  /\ historyStore' = store
  /\ passes' = Append(SelectSeq(ps, Active), NewPass("resume"))

(***************************************************************************)
(* The script's top level: a new process, with nothing in memory, loads    *)
(* history.json, then resumes when it holds a log of the workflow and      *)
(* starts it otherwise.  fs.readFileSync stands outside the try: when the  *)
(* file exists and cannot be read (readOk = FALSE) the exception ends the  *)
(* script before any pass.                                                 *)
(***************************************************************************)
Startup(w, m, readOk) ==
  /\ proc = "down"
  /\ runs < MaxRuns
  /\ mode' = m
  /\ wf' = w
  /\ runs' = runs + 1
  /\ modified' = (modified \/ (runs > 0 /\ w # wf))
  /\ timers' = {}
  /\ IF file.exists /\ ~readOk
       THEN /\ proc' = "down"
            /\ exit' = "uncaughtException"
            /\ historyStore' = EmptyStore
            /\ context' = EmptyStore
            /\ passes' = << >>
            /\ passStart' = [k |-> 0, ops |-> TotalOps, by |-> "none"]
       ELSE /\ proc' = "up"
            /\ exit' = "none"
            /\ LET loaded == loadHistoryFromFile(file, EmptyStore)
               IN  IF WID \in DOMAIN loaded
                     THEN ResumeWorkflow(loaded, << >>)
                     ELSE StartWorkflow(loaded, << >>)
            /\ passStart' = [k |-> CompletedPrefix(historyStore'[WID]), ops |-> TotalOps,
                             by |-> "startup"]
  /\ UNCHANGED << now, file, calls, wakes, saves, saveFailed, handled, returns >>

(***************************************************************************)
(* The wrapper ActivityFromFunction returns, up to its await of func.      *)
(***************************************************************************)
SetPass(p, ps) == [passes EXCEPT ![p] = ps]

ActivityFromFunction(p) ==
  /\ proc = "up"
  /\ p \in DOMAIN passes
  /\ passes[p].pc = "run"
  /\ passes[p].ip <= Len(wf)
  /\ wf[passes[p].ip].name # SleepName
  /\ LET step == wf[passes[p].ip]
         func == FuncOf(step.name)
         ctx == context[WID]
         hs == historyStore[WID]
         lastReturn == getCachedResult(hs, ctx.seq, func.name)
         historyEntry == [id |-> WID, name |-> func.name, status |-> "running",
                          input |-> << "arg", step.arg, 0 >>, output |-> Undefined]
     IN  IF lastReturn.throws
           THEN /\ passes' = SetPass(p, [passes[p] EXCEPT !.pc = "catch", !.err = "NameMismatch"])
                /\ UNCHANGED << context, historyStore, calls >>
           ELSE /\ context' = [context EXCEPT ![WID].seq = ctx.seq + 1]
                /\ IF lastReturn.value # Undefined
                     THEN /\ passes' = SetPass(p, [passes[p] EXCEPT !.ip = @ + 1,
                                                                   !.ret = lastReturn.value])
                          /\ UNCHANGED << historyStore, calls >>
                     ELSE /\ historyStore' = [historyStore EXCEPT ![WID] = Append(hs, historyEntry)]
                          /\ calls' = [calls EXCEPT ![passes[p].ip] = @ + 1]
                          /\ passes' = SetPass(p, [passes[p] EXCEPT !.pc = "await",
                                                                   !.entry = Len(hs) + 1])
  /\ UNCHANGED << proc, exit, mode, wf, now, file, timers, wakes, saves, runs,
                  modified, saveFailed, handled, returns, passStart >>

(***************************************************************************)
(* func(input) has returned: the entry the wrapper holds is completed.     *)
(***************************************************************************)
ActivityResolve(p) ==
  /\ proc = "up"
  /\ p \in DOMAIN passes
  /\ passes[p].pc = "await"
  /\ LET func == FuncOf(wf[passes[p].ip].name)
         ret == func.returns
     IN  /\ ~func.throws
         /\ historyStore' = [historyStore EXCEPT ![WID][passes[p].entry] =
                               [@ EXCEPT !.status = "completed", !.output = ret]]
         /\ passes' = SetPass(p, [passes[p] EXCEPT !.pc = "run", !.ip = @ + 1,
                                                  !.ret = ret, !.entry = 0])
  /\ UNCHANGED << proc, exit, mode, wf, now, file, context, timers, calls, wakes,
                  saves, runs, modified, saveFailed, handled, returns, passStart >>

(***************************************************************************)
(* func(input) has thrown: the wrapper has no handler, the error leaves    *)
(* the workflow body and reaches the catch of the driver.                  *)
(***************************************************************************)
ActivityReject(p) ==
  /\ proc = "up"
  /\ p \in DOMAIN passes
  /\ passes[p].pc = "await"
  /\ FuncOf(wf[passes[p].ip].name).throws
  /\ passes' = SetPass(p, [passes[p] EXCEPT !.pc = "catch", !.err = "StepFailure"])
  /\ UNCHANGED << proc, exit, mode, wf, now, file, historyStore, context, timers,
                  calls, wakes, saves, runs, modified, saveFailed, handled, returns, passStart >>

(***************************************************************************)
(* ScheduleWakeUp: setTimeout(callback, timestamp - Date.now()); the       *)
(* callback is due once the clock has reached timestamp.                   *)
\* ScheduleWakeUp that sets no timer.
ScheduleWakeUp_Never(ts, workflowId, timestamp) == ts

(***************************************************************************)
ScheduleWakeUp(ts, workflowId, timestamp) ==
  ts \cup {[wid |-> workflowId, fireAt |-> timestamp]}

(***************************************************************************)
(* The timer step workflowSleep returns.  On a miss it records the entry,  *)
(* schedules the wake-up, completes the entry and throws SleepError.       *)
(***************************************************************************)
workflowSleep(p) ==
  /\ proc = "up"
  /\ p \in DOMAIN passes
  /\ passes[p].pc = "run"
  /\ passes[p].ip <= Len(wf)
  /\ wf[passes[p].ip].name = SleepName
  /\ LET ms == wf[passes[p].ip].arg
         ctx == context[WID]
         hs == historyStore[WID]
         lastReturn == getCachedResult(hs, ctx.seq, SleepName)
         historyEntry == [id |-> WID, name |-> SleepName, status |-> "completed",
                          input |-> << "Date", now, now + ms >>, output |-> Null]
     IN  IF lastReturn.throws
           THEN /\ passes' = SetPass(p, [passes[p] EXCEPT !.pc = "catch", !.err = "NameMismatch"])
                /\ UNCHANGED << context, historyStore, timers, wakes >>
           ELSE /\ context' = [context EXCEPT ![WID].seq = ctx.seq + 1]
                /\ IF lastReturn.value # Undefined
                     THEN /\ passes' = SetPass(p, [passes[p] EXCEPT !.ip = @ + 1,
                                                                   !.ret = lastReturn.value])
                          /\ UNCHANGED << historyStore, timers, wakes >>
                     ELSE /\ historyStore' = [historyStore EXCEPT ![WID] = Append(hs, historyEntry)]
                          /\ timers' = ScheduleWakeUp(timers, WID, now + ms)
                          /\ wakes' = wakes + 1
                          /\ passes' = SetPass(p, [passes[p] EXCEPT !.pc = "catch",
                                                                   !.err = "SleepError"])
  /\ UNCHANGED << proc, exit, mode, wf, now, file, calls, saves, runs, modified,
                  saveFailed, handled, returns, passStart >>

(***************************************************************************)
(* The workflow body has made its last step call and returns: the promise  *)
(* resolves and the catch of the driver is not run.                        *)
(***************************************************************************)
WorkflowReturn(p) ==
  /\ proc = "up"
  /\ p \in DOMAIN passes
  /\ passes[p].pc = "run"
  /\ passes[p].ip > Len(wf)
  /\ passes' = SetPass(p, [passes[p] EXCEPT !.pc = "returned"])
  /\ returns' = returns + 1
  /\ UNCHANGED << proc, exit, mode, wf, now, file, historyStore, context, timers,
                  calls, wakes, saves, runs, modified, saveFailed, handled,
                  passStart >>

\* errorHandler that saves the store on every error, not on SleepError
\* alone.
errorHandler_SaveAlways(p, write) ==
  /\ proc = "up"
  /\ p \in DOMAIN passes
  /\ passes[p].pc = "catch"
  /\ file' = saveHistoryToFile(historyStore)
  /\ saves' = saves + 1
  /\ IF passes[p].err = "SleepError"
       THEN /\ proc' = "down"
            /\ exit' = "suspended"
            /\ timers' = {}
            /\ passes' = SetPass(p, [passes[p] EXCEPT !.pc = "suspended"])
       ELSE /\ passes' = SetPass(p, [passes[p] EXCEPT !.pc = "logged"])
            /\ UNCHANGED << proc, exit, timers >>
  /\ handled' = handled \cup {[err |-> passes[p].err, branch |-> "save"]}
  /\ UNCHANGED << mode, wf, now, historyStore, context, calls, wakes, runs, modified,
                  saveFailed, returns, passStart >>

\* errorHandler with process.exit(0) ahead of the save: on SleepError the
\* process is gone before history.json is written.
errorHandler_ExitFirst(p, write) ==
  /\ proc = "up"
  /\ p \in DOMAIN passes
  /\ passes[p].pc = "catch"
  /\ IF passes[p].err = "SleepError"
       THEN /\ proc' = "down"
            /\ exit' = "suspended"
            /\ timers' = {}
            /\ passes' = SetPass(p, [passes[p] EXCEPT !.pc = "suspended"])
            /\ UNCHANGED << file, saves, saveFailed >>
       ELSE /\ passes' = SetPass(p, [passes[p] EXCEPT !.pc = "logged"])
            /\ UNCHANGED << proc, exit, timers, file, saves, saveFailed >>
  /\ handled' = handled \cup {[err |-> passes[p].err,
                                 branch |-> IF passes[p].err = "SleepError" THEN "save" ELSE "log"]}
  /\ UNCHANGED << mode, wf, now, historyStore, context, calls, wakes, runs, modified,
                  returns, passStart >>

(***************************************************************************)
(* errorHandler, the catch of the driver.  SleepError: save the store and  *)
(* process.exit(0); when writeFileSync throws, the handler throws before   *)
(* the exit and the rejection is unhandled: the process dies with code 1,  *)
(* or (mode "warn") lives on.  Any other error is printed.                 *)
(***************************************************************************)
errorHandler(p, write) ==
  /\ proc = "up"
  /\ p \in DOMAIN passes
  /\ passes[p].pc = "catch"
  /\ IF passes[p].err = "SleepError"
       THEN IF write = "written"
              THEN /\ file' = saveHistoryToFile(historyStore)
                   /\ saves' = saves + 1
                   /\ proc' = "down"
                   /\ exit' = "suspended"
                   /\ timers' = {}
                   /\ passes' = SetPass(p, [passes[p] EXCEPT !.pc = "suspended"])
                   /\ UNCHANGED saveFailed
              ELSE /\ saveFailed' = TRUE
                   /\ passes' = SetPass(p, [passes[p] EXCEPT !.pc = "unhandled"])
                   /\ IF mode = "throw"
                        THEN proc' = "down" /\ exit' = "unhandledRejection" /\ timers' = {}
                        ELSE UNCHANGED << proc, exit, timers >>
                   /\ file' = IF write = "truncated" THEN TruncatedFile ELSE file
                   /\ UNCHANGED saves
       ELSE /\ passes' = SetPass(p, [passes[p] EXCEPT !.pc = "logged"])
            /\ UNCHANGED << proc, exit, timers, file, saves, saveFailed >>
  /\ handled' = handled \cup {[err |-> passes[p].err,
                                 branch |-> IF passes[p].err = "SleepError" THEN "save" ELSE "log"]}
  /\ UNCHANGED << mode, wf, now, historyStore, context, calls, wakes, runs, modified,
                  returns, passStart >>

(***************************************************************************)
(* Nothing keeps the process alive once no pass is running and no timer    *)
(* is pending: it ends with code 0.                                        *)
(***************************************************************************)
ExitWhenIdle ==
  /\ proc = "up"
  /\ \A p \in DOMAIN passes : ~Active(passes[p])
  /\ timers = {}
  /\ proc' = "down"
  /\ exit' = "idle"
  /\ UNCHANGED << mode, wf, now, file, historyStore, context, timers, passes,
                  calls, wakes, saves, runs, modified, saveFailed, handled, returns, passStart >>

(***************************************************************************)
(* The callback ScheduleWakeUp has set: it runs once it is due and no      *)
(* pass is between two awaits, and calls ResumeWorkflow.  Node runs timers *)
(* on its own millisecond clock: the callback may run while Date.now() is  *)
(* still TimerSlack short of the timestamp.                                *)
\* The callback of a repeating timer (setInterval): it stays armed after
\* it has run.
TimerFired_KeepsTimer(t) ==
  /\ proc = "up"
  /\ t \in timers
  /\ now >= t.fireAt - TimerSlack
  /\ \A p \in DOMAIN passes : passes[p].pc \notin {"run", "catch"}
  /\ timers' = timers
  /\ ResumeWorkflow(historyStore, passes)
  /\ passStart' = [k |-> CompletedPrefix(historyStore[WID]), ops |-> TotalOps,
                   by |-> "timer"]
  /\ UNCHANGED << proc, exit, mode, wf, now, file, calls, wakes, saves, runs,
                  modified, saveFailed, handled, returns >>

(***************************************************************************)
TimerFired(t) ==
  /\ proc = "up"
  /\ t \in timers
  /\ now >= t.fireAt - TimerSlack
  /\ \A p \in DOMAIN passes : passes[p].pc \notin {"run", "catch"}
  /\ timers' = timers \ {t}
  /\ ResumeWorkflow(historyStore, passes)
  /\ passStart' = [k |-> CompletedPrefix(historyStore[WID]), ops |-> TotalOps,
                   by |-> "timer"]
  /\ UNCHANGED << proc, exit, mode, wf, now, file, calls, wakes, saves, runs,
                  modified, saveFailed, handled, returns >>

(***************************************************************************)
(* Time passes: Date.now() moves on to the next whole second, or to the    *)
(* instant a pending timer may first run.                                  *)
(***************************************************************************)
Tick ==
  /\ \E to \in {now - (now % 1000) + 1000} \cup {t.fireAt - TimerSlack : t \in timers} :
       /\ to > now
       /\ to <= MaxTicks * 1000
       /\ now' = to
  /\ UNCHANGED << proc, exit, mode, wf, file, historyStore, context, timers,
                  passes, calls, wakes, saves, runs, modified, saveFailed, handled, returns, passStart >>

Next ==
  \/ \E w \in Workflows, m \in Modes, readOk \in BOOLEAN : Startup(w, m, readOk)
  \/ \E p \in DOMAIN passes : ActivityFromFunction(p)
  \/ \E p \in DOMAIN passes : ActivityResolve(p)
  \/ \E p \in DOMAIN passes : ActivityReject(p)
  \/ \E p \in DOMAIN passes : workflowSleep(p)
  \/ \E p \in DOMAIN passes : WorkflowReturn(p)
  \/ \E p \in DOMAIN passes, write \in WriteOutcomes : errorHandler(p, write)
  \/ ExitWhenIdle
  \/ \E t \in timers : TimerFired(t)
  \/ Tick

Spec == Init /\ [][Next]_vars

(***************************************************************************)
(* Vocabulary of the properties.                                           *)
(***************************************************************************)
IsActivity(w, k) == w[k].name # SleepName

\* No function of the workflow throws.
AllSucceed(w) == \A k \in 1..Len(w) : IsActivity(w, k) => ~FuncOf(w[k].name).throws

Returned == \E p \in DOMAIN passes : passes[p].pc = "returned"

\* Every pass so far ran the same workflow, every save went through, no
\* function threw, and no pass was started after the workflow had returned:
\* every pass but the one that returns has ended at a timer suspension.
OnlySuspensions ==
  /\ runs > 0
  /\ ~modified
  /\ ~saveFailed
  /\ AllSucceed(wf)
  /\ (returns = 0 \/ (returns = 1 /\ Returned))

\* What one uninterrupted execution of w records: one completed entry per
\* step, with the function's result, or null for a timer.
RefLog(w) ==
  [k \in 1..Len(w) |->
     [name |-> w[k].name, status |-> "completed",
      output |-> IF IsActivity(w, k) THEN FuncOf(w[k].name).returns ELSE Null]]

Outcome(log) ==
  [k \in 1..Len(log) |->
     [name |-> log[k].name, status |-> log[k].status, output |-> log[k].output]]

Log == IF WID \in DOMAIN historyStore THEN historyStore[WID] ELSE << >>

Cursor == context[WID].seq

StepCall(p) == ActivityFromFunction(p) \/ workflowSleep(p)

\* The entry at the cursor is completed and carries the name of the step
\* pass p is about to call.
CompletedAtCursor(p) ==
  /\ proc = "up"
  /\ passes[p].pc = "run"
  /\ passes[p].ip <= Len(wf)
  /\ Cursor < Len(Log)
  /\ Log[Cursor + 1].status = "completed"

(***************************************************************************)
(* C1.  While every pass ends at a timer suspension, the function of every *)
(* activity position of the workflow is invoked at most once over all      *)
(* passes, and exactly once when the workflow has returned.                *)
(***************************************************************************)
C1_ExactlyOnce ==
  OnlySuspensions =>
    \A k \in 1..Len(wf) :
      IsActivity(wf, k) => /\ calls[k] <= 1
                           /\ (Returned => calls[k] = 1)

\* The same, of the script's own workflow only.
C1_NotifyExactlyOnce == (wf = NotifyWorkflow) => C1_ExactlyOnce

(***************************************************************************)
(* C2.  When the workflow has returned, the log is the log of one          *)
(* uninterrupted execution: one completed entry per step, same names,      *)
(* same outputs, same order.                                               *)
(***************************************************************************)
C2_LogAsUninterrupted ==
  (Returned /\ ~modified) => Outcome(Log) = RefLog(wf)

C2_NotifyLogAsUninterrupted == (wf = NotifyWorkflow) => C2_LogAsUninterrupted

(***************************************************************************)
(* C3.  A step called where the entry at the cursor is completed and has   *)
(* the step's name returns the recorded output, whatever it is, and        *)
(* changes neither the log nor the invocation counts nor the wake-ups,     *)
(* and does not throw.                                                     *)
(***************************************************************************)
C3_CacheHit ==
  [][\A p \in DOMAIN passes :
       (CompletedAtCursor(p) /\ Log[Cursor + 1].name = wf[passes[p].ip].name /\ StepCall(p))
         => /\ passes'[p].pc = "run"
            /\ passes'[p].ip = passes[p].ip + 1
            /\ passes'[p].ret = Log[Cursor + 1].output
            /\ passes'[p].err = "none"
            /\ historyStore' = historyStore
            /\ calls' = calls
            /\ wakes' = wakes
            /\ timers' = timers]_vars

\* The same, of recorded outputs other than undefined.
C3_CacheHitDefined ==
  [][\A p \in DOMAIN passes :
       (/\ CompletedAtCursor(p)
        /\ Log[Cursor + 1].name = wf[passes[p].ip].name
        /\ Log[Cursor + 1].output # Undefined
        /\ StepCall(p))
         => /\ passes'[p].pc = "run"
            /\ passes'[p].ip = passes[p].ip + 1
            /\ passes'[p].ret = Log[Cursor + 1].output
            /\ passes'[p].err = "none"
            /\ historyStore' = historyStore
            /\ calls' = calls
            /\ wakes' = wakes
            /\ timers' = timers]_vars

(***************************************************************************)
(* C4.  A step called where the entry at the cursor is completed under     *)
(* another name fails the pass there with the name-mismatch error: the     *)
(* cursor and the position in the body stay, nothing is returned, the      *)
(* function is not invoked, the log and the wake-ups are unchanged; and a  *)
(* pass that has failed so makes no further step.                          *)
(***************************************************************************)
C4_DeterminismViolation ==
  [][/\ \A p \in DOMAIN passes :
          (CompletedAtCursor(p) /\ Log[Cursor + 1].name # wf[passes[p].ip].name /\ StepCall(p))
            => /\ passes'[p] = [passes[p] EXCEPT !.pc = "catch", !.err = "NameMismatch"]
               /\ context' = context
               /\ historyStore' = historyStore
               /\ calls' = calls
               /\ wakes' = wakes
               /\ timers' = timers
     /\ \A p \in DOMAIN passes :
          passes[p].err = "NameMismatch"
            => ~(StepCall(p) \/ ActivityResolve(p) \/ ActivityReject(p) \/ WorkflowReturn(p))]_vars

C4_Witness ==
  \E p \in DOMAIN passes :
    /\ passes[p].kind = "resume"
    /\ passes[p].err = "NameMismatch"
    /\ passes[p].pc = "logged"
    /\ Cursor = passes[p].ip - 1
    /\ Log[Cursor + 1].status = "completed"
    /\ Log[Cursor + 1].name # wf[passes[p].ip].name

(***************************************************************************)
(* C5.  The driver takes a name mismatch down another path than the        *)
(* failure of a step: errorHandler never takes the same branch for both.   *)
(***************************************************************************)
C5_DistinctOutcome ==
  \A a, b \in handled :
    (a.err = "NameMismatch" /\ b.err = "StepFailure") => a.branch # b.branch

(***************************************************************************)
(* C6.  When the function of an activity has thrown, the entry recorded    *)
(* for the call has status failed and no output.                           *)
(***************************************************************************)
C6_StatusFailed ==
  \A p \in DOMAIN passes :
    passes[p].err = "StepFailure"
      => /\ Log[passes[p].entry].status = "failed"
         /\ Log[passes[p].entry].output = Undefined

(***************************************************************************)
(* C7.  When the driver has handled an error other than SleepError, the    *)
(* file holds the log, the entry of the failing step included.             *)
(***************************************************************************)
C7_FailureSaved ==
  \A p \in DOMAIN passes :
    passes[p].pc = "logged"
      => /\ file.exists
         /\ file.data = JSONstringify(historyStore)

(***************************************************************************)
(* C8.  When the process ends after the workflow has returned, the file    *)
(* holds the log of the store.                                             *)
(***************************************************************************)
C8_CompletionSaved ==
  (proc = "down" /\ exit = "idle" /\ Returned)
    => /\ file.exists
       /\ file.data = JSONstringify(historyStore)

(***************************************************************************)
(* C9.  The process exits as suspended only in the step that has written   *)
(* the store, timer entry last, to the file; and when the write fails the  *)
(* process does not exit as suspended, and the file is as it was or is     *)
(* left truncated.                                                         *)
(***************************************************************************)
C9_SaveBeforeExit ==
  [][/\ (proc = "up" /\ exit' = "suspended")
          => /\ proc' = "down"
             /\ saves' = saves + 1
             /\ file'.exists
             /\ file'.data = JSONstringify(historyStore)
             /\ Len(file'.data[WID]) > 0
             /\ file'.data[WID][Len(file'.data[WID])].name = SleepName
             /\ file'.data[WID][Len(file'.data[WID])].status = "completed"
     /\ \A p \in DOMAIN passes, write \in WriteOutcomes \ {"written"} :
          (passes[p].err = "SleepError" /\ errorHandler(p, write))
            => /\ exit' # "suspended"
               /\ file' \in {file, TruncatedFile}
               /\ saves' = saves]_vars

C9_Witness ==
  /\ exit = "suspended"
  /\ saveFailed
  /\ saves > 0
  /\ file.data = JSONstringify(historyStore)

(***************************************************************************)
(* C10.  Once every step of the workflow has its completed entry in the    *)
(* log, a pass invokes no function, schedules no wake-up and changes       *)
(* neither the log nor the file.                                           *)
(***************************************************************************)
LogComplete ==
  /\ Len(Log) = Len(wf)
  /\ \A k \in 1..Len(wf) : Log[k].status = "completed" /\ Log[k].name = wf[k].name

C10_NoFurtherExecution ==
  [][(/\ proc = "up"
      /\ LogComplete
      /\ \A p \in DOMAIN passes : passes[p].kind = "resume" /\ passes[p].err = "none")
       => /\ calls' = calls
          /\ wakes' = wakes
          /\ historyStore' = historyStore
          /\ file' = file]_vars

(***************************************************************************)
(* C11.  A resume pass of the same workflow that began with a log whose    *)
(* first K entries were completed has, when the workflow returns, invoked  *)
(* max(0, totalSteps - K) operations: it executes the steps the log does   *)
(* not hold, none of the recorded ones, and schedules no wake-up for a     *)
(* recorded sleep.                                                         *)
(***************************************************************************)
Max0(n) == IF n < 0 THEN 0 ELSE n

C11_ReplayCount ==
  \A p \in DOMAIN passes :
    (passes[p].kind = "resume" /\ passes[p].pc = "returned" /\ ~modified)
      => TotalOps - passStart.ops = Max0(Len(wf) - passStart.k)

\* The same, of logs whose recorded outputs are all other than undefined.
C11_ReplayCountDefined ==
  (\A k \in 1..Len(Log) : Log[k].output # Undefined) => C11_ReplayCount

(***************************************************************************)
(* C12: across passes and process restarts the log of the workflow id only *)
(* grows by appending: every earlier state of the log is a prefix of every *)
(* later one, up to the status and output of its last entry, which may go  *)
(* from running to completed.  Inputs are compared as JSON writes them.    *)
(* Stated of every step, the start of a new process included, of           *)
(* executions whose saves all went through.                                *)
(***************************************************************************)
SameOrCompleted(a, b) ==
  /\ JSONEntry([a EXCEPT !.status = "", !.output = ""])
       = JSONEntry([b EXCEPT !.status = "", !.output = ""])
  /\ \/ (a.status = b.status /\ a.output = b.output)
     \/ (a.status = "running" /\ b.status = "completed")

PrefixUpToLast(a, b) ==
  /\ Len(a) <= Len(b)
  /\ \A k \in 1..Len(a) :
       IF k < Len(a) THEN JSONEntry(a[k]) = JSONEntry(b[k])
                     ELSE SameOrCompleted(a[k], b[k])

C12_AppendOnly == [][~saveFailed' => PrefixUpToLast(Log, Log')]_vars

\* The same, of the steps of one process: between two starts of the script
\* the log in memory only grows by appending.
C12_AppendOnlyInProcess == [][proc = "up" => PrefixUpToLast(Log, Log')]_vars

\* The same, of the persisted log: each save that goes through extends
\* what the file held.
C12_FileAppendOnly ==
  [][(file.exists /\ file.parses /\ WID \in DOMAIN file.data /\ file'.parses)
       => PrefixUpToLast(file.data[WID], file'.data[WID])]_vars

(***************************************************************************)
(* C13: the cursor is reset to 0 at the start of every pass, and in every  *)
(* state its sequence equals the number of steps the current pass has      *)
(* invoked so far; it advances by exactly one per step invocation.         *)
(***************************************************************************)
CurrentPass == passes[Len(passes)]

\* The steps pass ps has invoked: it has returned from ip - 1 step calls
\* and, unless it stands between two calls, is inside the call of step ip.
Invoked(ps) == IF ps.pc \in {"run", "returned"} THEN ps.ip - 1 ELSE ps.ip

PassStart ==
  /\ passes' # << >>
  /\ \/ \E w \in Workflows, m \in Modes, readOk \in BOOLEAN : Startup(w, m, readOk)
     \/ \E t \in timers : TimerFired(t)

\* As the claim has it: every invocation counts, whatever its cache check
\* finds.
C13_SequenceCountsInvoked ==
  [][/\ PassStart => Cursor' = 0
     /\ passes' # << >> => Cursor' = Invoked(CurrentPass')
     /\ \A p \in DOMAIN passes : StepCall(p) => Cursor' = Cursor + 1]_vars

\* C13, as the code has it: the cache check of a step reads the cursor
\* before it is advanced, so during the check the sequence is the number of
\* steps invoked before this one (the step's zero-based position); it is
\* advanced by one as soon as the check has returned, hit or miss alike,
\* and not at all when the check throws the name mismatch.
Mismatched(ps) == ps.err = "NameMismatch"

C13_SequenceCountsChecked ==
  [][/\ PassStart => Cursor' = 0
     /\ passes' # << >> =>
          Cursor' = Invoked(CurrentPass') - (IF Mismatched(CurrentPass') THEN 1 ELSE 0)
     /\ \A p \in DOMAIN passes : StepCall(p) =>
          /\ Cursor = passes[p].ip - 1
          /\ Cursor' = IF Mismatched(passes'[p]) THEN Cursor ELSE Cursor + 1]_vars

\* A resumed pass executes its third step after two cache hits.
C13_Witness ==
  /\ passes # << >>
  /\ CurrentPass.kind = "resume"
  /\ CurrentPass.pc = "await"
  /\ Cursor = 3

(***************************************************************************)
(* C14: at no time are two passes of the workflow id active together: a    *)
(* pass started by the wake timer or by the start of the script never      *)
(* overlaps a pass that is still running.                                  *)
(***************************************************************************)
ActivePasses == {p \in DOMAIN passes : Active(passes[p])}

C14_OnePassAtATime == Cardinality(ActivePasses) <= 1

\* A pass the wake timer has started is executing a step, after the pass
\* that set the timer has ended in the same process.
C14_Witness ==
  /\ passStart.by = "timer"
  /\ Len(passes) = 1
  /\ passes[1].pc = "await"

(***************************************************************************)
(* C15: at the start of the process, after the load, Resume is invoked     *)
(* exactly when the loaded log of the workflow id is incomplete; with no   *)
(* log, or a complete one, the process starts no pass.                     *)
(***************************************************************************)
ScriptStart(w, readOk) == \E m \in Modes : Startup(w, m, readOk)

\* Log `log` holds every step of workflow w, completed.
CompleteFor(log, w) ==
  /\ Len(log) = Len(w)
  /\ \A k \in 1..Len(w) : log[k].status = "completed" /\ log[k].name = w[k].name

Persisted == file.exists /\ file.parses /\ WID \in DOMAIN file.data

C15_ResumeIncompleteElseIdle ==
  [][\A w \in Workflows : ScriptStart(w, TRUE) =>
       IF Persisted /\ ~CompleteFor(file.data[WID], w)
         THEN passes' = << NewPass("resume") >> /\ historyStore' = file.data
         ELSE passes' = << >>]_vars

\* C15, as the code and its README have it: Resume is invoked exactly when
\* history.json holds a log of the workflow id, complete or not, on the log
\* as loaded; with no such log (no file, a file that does not parse, a file
\* without the id) the script itself calls StartWorkflow, on an empty log.
\* Either way the cursor starts at 0.  When the file exists and cannot be
\* read, the script ends before any pass.
C15_ResumeLoadedElseStart ==
  [][\A w \in Workflows, readOk \in BOOLEAN : ScriptStart(w, readOk) =>
       IF file.exists /\ ~readOk
         THEN passes' = << >> /\ proc' = "down" /\ exit' = "uncaughtException"
         ELSE /\ Cursor' = 0
              /\ IF Persisted
                   THEN passes' = << NewPass("resume") >> /\ historyStore' = file.data
                   ELSE passes' = << NewPass("start") >> /\ Log' = << >>]_vars

\* The script has been started on a file that holds every step of the
\* workflow, and has resumed it.
C15_Witness ==
  /\ passStart.by = "startup"
  /\ ~modified
  /\ passStart.k = Len(wf)
  /\ passes # << >>
  /\ CurrentPass.kind = "resume"

(***************************************************************************)
(* C16: once a timer step has registered a wake of the workflow id for     *)
(* fireAtTime, Resume of that id is invoked no earlier than fireAtTime: no *)
(* pass is resumed on a log that holds a timer whose wake time the clock   *)
(* has not reached.                                                        *)
(***************************************************************************)
\* The wake times the timer entries of log `log` record.
WakeTimes(log) == {log[k].input[3] : k \in {j \in 1..Len(log) : log[j].name = SleepName}}

Resumed == passes' # << >> /\ CurrentPass'.kind = "resume"

C16_ResumeNotBeforeWake ==
  [][(PassStart /\ Resumed) => \A t \in WakeTimes(Log') : now >= t]_vars

\* The same, of the passes the wake timer starts in the process that has
\* set it.
C16_TimerNotBeforeWake ==
  [][((\E t \in timers : TimerFired(t)) /\ Resumed)
       => \A t \in WakeTimes(Log') : now >= t]_vars

\* Of those passes, what holds: the callback runs no more than TimerSlack
\* ahead of the wake time.
C16_TimerWithinSlack ==
  [][((\E t \in timers : TimerFired(t)) /\ Resumed)
       => \A t \in WakeTimes(Log') : now >= t - TimerSlack]_vars

(***************************************************************************)
(* C17: on a cache miss of a timer step the pass ends at that step: the    *)
(* entry is appended with {now, wakeAt} as input, a wake is registered for *)
(* wakeAt, the entry is completed with null output and the suspension      *)
(* signal is raised; the pass invokes no later step, and the log saved at  *)
(* the suspension shows the timer entry as completed.                      *)
(***************************************************************************)
Last(log) == log[Len(log)]

TimerEntry(at, ms) ==
  [id |-> WID, name |-> SleepName, status |-> "completed",
   input |-> << "Date", at, at + ms >>, output |-> Null]

TimerMiss(p) == workflowSleep(p) /\ Len(Log') > Len(Log)

Signalled == passes # << >> /\ CurrentPass.err = "SleepError"

C17_TimerMissSuspends ==
  [][/\ \A p \in DOMAIN passes : TimerMiss(p) =>
          /\ Log' = Append(Log, TimerEntry(now, wf[passes[p].ip].arg))
          /\ [wid |-> WID, fireAt |-> now + wf[passes[p].ip].arg] \in timers'
          /\ wakes' = wakes + 1
          /\ passes'[p].pc = "catch"
          /\ passes'[p].err = "SleepError"
     /\ (Signalled /\ proc = "up" /\ ~PassStart) =>
          /\ calls' = calls
          /\ wakes' = wakes
          /\ Log' = Log
          /\ returns' = returns
     /\ (Signalled /\ saves' = saves + 1) =>
          /\ file'.data[WID] = JSONstringify(historyStore)[WID]
          /\ Last(file'.data[WID]) = JSONEntry(TimerEntry(Last(Log).input[2],
                                                         wf[CurrentPass.ip].arg))]_vars

\* A pass has suspended at its timer step, the second of the workflow, and
\* the log is saved with the timer entry completed.
C17_Witness ==
  /\ exit = "suspended"
  /\ Signalled
  /\ CurrentPass.pc = "suspended"
  /\ CurrentPass.ip = 2
  /\ Persisted
  /\ Last(file.data[WID]).name = SleepName
  /\ Last(file.data[WID]).status = "completed"

(***************************************************************************)
(* C18: a step that takes the miss path is invoked with the cursor at the  *)
(* length of the log, so that the entry it appends lands at its position;  *)
(* after every step call the cursor is at most the length of the log, and  *)
(* no miss occurs at a position the log already holds.                     *)
(***************************************************************************)
Miss(p) == StepCall(p) /\ Len(Log') > Len(Log)

C18_MissAtEndOfLog ==
  [][\A p \in DOMAIN passes :
       /\ Miss(p) => Cursor = Len(Log)
       /\ StepCall(p) => Cursor' <= Len(Log')]_vars

\* The same, of logs whose completed entries all hold an output other than
\* undefined.
C18_MissAtEndOfLogDefined ==
  [][(\A k \in 1..Len(Log) : Log[k].status = "completed" => Log[k].output # Undefined)
       => \A p \in DOMAIN passes :
            /\ Miss(p) => Cursor = Len(Log)
            /\ StepCall(p) => Cursor' <= Len(Log')]_vars

(***************************************************************************)
(* C19: every log saveHistoryToFile has written holds completed entries    *)
(* only, and its last entry is a sleep entry with null output; so every    *)
(* log loaded at the start of the script holds completed entries only.     *)
(***************************************************************************)
AllCompleted(log) == \A k \in 1..Len(log) : log[k].status = "completed"

EndsInSleep(log) ==
  /\ log # << >>
  /\ Last(log).name = SleepName
  /\ Last(log).output = Null

\* history.json is what a start of the script loads: stated of the file in
\* every state, the property holds of every log saved and of every log loaded.
C19_SavedLogCompleted ==
  Persisted => AllCompleted(file.data[WID]) /\ EndsInSleep(file.data[WID])

\* A saved log is on disk while the log in memory holds a running entry.
C19_Witness ==
  /\ Persisted
  /\ proc = "up"
  /\ \E k \in 1..Len(Log) : Log[k].status = "running"

(***************************************************************************)
(* The script as its README has it run: NotifyWorkflow, whose function     *)
(* does not throw, with every save going through, and `node index.js` run  *)
(* again each time the process has ended.  Every continuation that is      *)
(* ready runs, and the script is started again while it may be.            *)
(***************************************************************************)
NotifyNext ==
  \/ Startup(NotifyWorkflow, "throw", TRUE)
  \/ \E p \in DOMAIN passes : ActivityFromFunction(p)
  \/ \E p \in DOMAIN passes : ActivityResolve(p)
  \/ \E p \in DOMAIN passes : workflowSleep(p)
  \/ \E p \in DOMAIN passes : WorkflowReturn(p)
  \/ \E p \in DOMAIN passes : errorHandler(p, "written")
  \/ ExitWhenIdle
  \/ Tick

NotifyProgress ==
  \/ Startup(NotifyWorkflow, "throw", TRUE)
  \/ \E p \in DOMAIN passes : ActivityFromFunction(p)
  \/ \E p \in DOMAIN passes : ActivityResolve(p)
  \/ \E p \in DOMAIN passes : workflowSleep(p)
  \/ \E p \in DOMAIN passes : WorkflowReturn(p)
  \/ \E p \in DOMAIN passes : errorHandler(p, "written")
  \/ ExitWhenIdle

NotifySpec == Init /\ [][NotifyNext]_vars /\ WF_vars(NotifyProgress)

(***************************************************************************)
(* C20: when every activity and every save succeeds and the script is run  *)
(* again after each suspension, NotifyWorkflow eventually returns, from a  *)
(* pass that has replayed the whole log; each suspended pass lengthens the *)
(* saved log by one activity entry and one sleep entry.                    *)
(***************************************************************************)
PersistedLog == IF Persisted THEN file.data[WID] ELSE << >>

C20_NotifyReturns ==
  /\ <>(Returned /\ LogComplete /\ PersistedLog = JSONstringify(historyStore)[WID])
  /\ [][saves' = saves + 1 =>
          /\ Len(PersistedLog') = Len(PersistedLog) + 2
          /\ PrefixUpToLast(PersistedLog, PersistedLog')
          /\ PersistedLog'[Len(PersistedLog) + 1].name = "SendSlackMessage"
          /\ PersistedLog'[Len(PersistedLog) + 2].name = SleepName]_vars

\* The fourth run of the script has returned from NotifyWorkflow after
\* three suspensions, each saved.
C20_Witness ==
  /\ Returned
  /\ runs = 4
  /\ saves = LoopCount
  /\ Len(PersistedLog) = 2 * LoopCount

====
